---- MODULE Spec2Model ----
(***************************************************************************)
(* Model of the actionstack dispatch kernel:                               *)
(*   - Action (completion token)          lib/actions.ts                   *)
(*   - createAction thunk wrapper         lib/actions.ts                   *)
(*   - ExecutionStack (operation ledger)  lib/stack.ts (src/unnamed/part_002) *)
(*   - Store dispatch pipeline            lib/store.ts is not part of the  *)
(*     sources at hand; it is modelled from section 4.4 of the design.     *)
(***************************************************************************)
EXTENDS Integers, Sequences, FiniteSets, TLC

\* ------------------------------------------------------------------ bounds

\* Number of dispatch slots (and of Action tokens alive at one time).
MaxDispatches == 3

\* Number of waitForEmpty() calls made on one ledger.
MaxWaiters == 2

\* Number of dispatch slots of the unbounded runs.
MaxLive == 2

\* Number of dispatches (root and re-entrant) whose arrival is recorded.
MaxArrivals == 3

\* The number of forFeature registrations in a run.
MaxFeatures == 3

\* The number of resolutions of the Store provider in a run.
MaxResolutions == 2

\* ------------------------------------------------------------- value domains

\* Values a JavaScript throw / Promise rejection can carry.  ErrorObject is an
\* Error instance (has .message); PlainString is a thrown string (property
\* access works, .message is undefined); Undefined and Null are the two values
\* on which a property access raises a TypeError.
ErrorObject == "Error"
PlainString == "string"
Undefined == "undefined"
Null == "null"
TypeError == "TypeError"
Thrown == {ErrorObject, PlainString, Undefined, Null}

\* typeOrThunk of the Action constructor: a string type or a function.
ThunkFn == "function"
ActionTypes == {"INC", "DBL", "NOP"}
TypeOrThunk == ActionTypes \cup {ThunkFn}

TokenIds == 1..MaxDispatches

\* The slots the unbounded runs use.
LiveIds == {d \in TokenIds : d <= MaxLive}

\* A slot that holds no token (no Action has been constructed for it).
Absent == [exists |-> FALSE]

\* ------------------------------------------------- Action (completion token)

\* A native Promise: settles at most once; resolve/reject on a settled
\* promise do nothing.
NewPromise == [state |-> "pending", reason |-> Undefined]

PromiseResolve(p) ==
    IF p.state = "pending" THEN [state |-> "fulfilled", reason |-> Undefined] ELSE p

PromiseReject(p, reason) ==
    IF p.state = "pending" THEN [state |-> "rejected", reason |-> reason] ELSE p

\* new Action(typeOrThunk): type is set only for a string.
NewAction(typeOrThunk) ==
    [exists |-> TRUE,
     type |-> IF typeOrThunk = ThunkFn THEN Undefined ELSE typeOrThunk,
     isResolved |-> FALSE,
     isRejected |-> FALSE,
     promise |-> NewPromise]

\* Action.resolve as if the guard tested _isResolved only.
resolveUnguarded(a) ==
    IF ~a.isResolved
    THEN [a EXCEPT !.isResolved = TRUE, !.promise = PromiseResolve(a.promise)]
    ELSE a

\* Action.resolve()
resolve(a) ==
    IF ~a.isResolved /\ ~a.isRejected
    THEN [a EXCEPT !.isResolved = TRUE, !.promise = PromiseResolve(a.promise)]
    ELSE a

\* Action.reject(reason)
reject(a, reason) ==
    IF ~a.isResolved /\ ~a.isRejected
    THEN [a EXCEPT !.isRejected = TRUE, !.promise = PromiseReject(a.promise, reason)]
    ELSE a

\* Action.waitForCompletion() as if it built a promise of its own at each call.
waitForCompletionFresh(a) == NewPromise

\* Action.waitForCompletion()
waitForCompletion(a) == a.promise

\* Action.hasExecuted()
hasExecuted(a) == a.isResolved \/ a.isRejected

\* Action.isAsync()
isAsync(a) == a.type \notin ActionTypes

\* ------------------------------------------------ ExecutionStack (ledger)

OperationType == {"action", "async action", "effect"}

\* The Operation entries a ledger can hold: one per instance (token or thunk).
Operations == [operation : OperationType, instance : TokenIds]

\* What peek()/pop() return on an empty ledger (JavaScript undefined).
NoItem == [operation |-> Undefined, instance |-> 0]

\* The predicates handed to filter(): by operation type, or "every entry but
\* the one of this instance" (the removal of one dispatch's Operation).
Predicates ==
    [kind : {"operation"}, ops : SUBSET OperationType, instance : {0}]
      \cup [kind : {"notInstance"}, ops : {{}}, instance : TokenIds]

Test(pred, item) ==
    IF pred.kind = "operation"
    THEN item.operation \in pred.ops
    ELSE item.instance # pred.instance

\* get length as if it always read zero.
LengthZero(s) == 0

\* get length
Length(s) == Len(s)

\* push(item) as if it published [item, ...value].
pushFront(s, item) == <<item>> \o s

\* push(item): publishes [...value, item]
push(s, item) == Append(s, item)

\* peek(): value[value.length - 1]
peek(s) == IF Len(s) = 0 THEN NoItem ELSE s[Len(s)]

\* filter(predicate) as if the predicate were negated.
filterNegated(s, pred) == SelectSeq(s, LAMBDA x : ~Test(pred, x))

\* filter(predicate) as if the filtered value were never published.
filterNotPublished(s, pred) == s

\* filter(predicate): publishes and returns value.filter(predicate)
filter(s, pred) == SelectSeq(s, LAMBDA x : Test(pred, x))

\* pop() as if it sliced the first entry off instead of the last.
popFront(s) ==
    [value |-> peek(s), stack |-> SubSeq(s, 2, Len(s))]

\* pop(): returns peek(), publishes value.slice(0, -1)
pop(s) ==
    [value |-> peek(s), stack |-> SubSeq(s, 1, Len(s) - 1)]

\* clear(): publishes []
clear(s) == <<>>

\* toArray(): a copy of the current value
toArray(s) == s

\* The predicate waitForEmpty() waits for, were it off by one.
EmptyPredicateOffByOne(value) == Len(value) <= 1

\* The predicate waitForEmpty() waits for, were it to hold of every value.
EmptyPredicateAlways(value) == TRUE

\* The predicate waitForEmpty() hands to waitFor: value.length === 0
EmptyPredicate(value) == Len(value) = 0

WaiterIds == 1..MaxWaiters

IdleWaiter == [state |-> "idle", value |-> <<>>]

\* The promise a new waitForEmpty() call takes: the lowest one not yet used.
IsNextWaiter(ws, w) ==
    /\ ws[w].state = "idle"
    /\ \A v \in WaiterIds : v < w => ws[v].state # "idle"

\* waitFor(stack, predicate), at subscription: a BehaviorSubject replays its
\* current value to a new subscriber, so the promise resolves at once when
\* the predicate already holds and stays pending otherwise.
waitForSubscribe(value) ==
    IF EmptyPredicate(value)
    THEN [state |-> "resolved", value |-> value]
    ELSE [state |-> "pending", value |-> <<>>]

\* waitFor at a publication, as if one publication could release one
\* subscriber only (the first one pending).
waitForNextFirstOnly(ws, value) ==
    [w \in DOMAIN ws |->
        IF /\ ws[w].state = "pending"
           /\ EmptyPredicate(value)
           /\ \A v \in DOMAIN ws : v < w => ws[v].state # "pending"
        THEN [state |-> "resolved", value |-> value]
        ELSE ws[w]]

\* waitFor(stack, predicate), at each later publication: every pending
\* subscriber whose predicate holds of the published value is resolved with
\* it (and unsubscribed); a settled promise never changes.
waitForNext(ws, value) ==
    [w \in WaiterIds |->
        IF ws[w].state = "pending" /\ EmptyPredicate(value)
        THEN [state |-> "resolved", value |-> value]
        ELSE ws[w]]

\* The waiters a publication of value releases.
Woken(ws, value) ==
    {w \in WaiterIds : ws[w].state = "pending" /\ waitForNext(ws, value)[w].state = "resolved"}

\* The instances of a ledger value.
Instances(s) == {s[i].instance : i \in 1..Len(s)}

\* The position of the entry of instance i in ledger s.
PosOf(s, i) == CHOOSE k \in 1..Len(s) : s[k].instance = i

\* pushOrder after a publication: the entries no longer present are dropped
\* and the entries that are new follow the old ones.
Surviving(order, s) ==
    SelectSeq(order, LAMBDA i : i \in Instances(s))
      \o SelectSeq([k \in 1..Len(s) |-> s[k].instance],
                   LAMBDA i : i \notin {order[k] : k \in 1..Len(order)})

\* ---------------------------------------- createAction: the thunk branch

\* What the wrapped function does when the thunk runs
\* typeOrThunk(...args)(dispatch, getState, dependencies):
\*   throwSync  it throws value before returning (in either call),
\*   reject     it returns a promise that later rejects with value,
\*   fulfil     it returns a promise that later fulfils (or a plain value),
\*   hang       it returns a promise that never settles.
Behaviours ==
    [how : {"throwSync", "reject"}, value : Thrown]
      \cup [how : {"fulfil", "hang"}, value : {Undefined}]

NoBehaviour == [how |-> "none", value |-> Undefined]

NoWarning == "none"

\* The text console.warn receives: `Error in action: ${error.message}`.
Warning(error) ==
    IF error = ErrorObject THEN "Error in action: message"
    ELSE "Error in action: undefined"

\* A thunk that has not been called.
NewThunk ==
    [pc |-> "none", behaviour |-> NoBehaviour, promise |-> NewPromise,
     warning |-> NoWarning]

\* The catch block: console.warn(`Error in action: ${error.message}`).
\* Reading .message of undefined or null raises a TypeError inside the
\* handler, which leaves the async function as the rejection of its promise.
catchBlock(th, error) ==
    IF error \in {Undefined, Null}
    THEN [th EXCEPT !.pc = "done",
                    !.promise = PromiseReject(th.promise, TypeError)]
    ELSE [th EXCEPT !.pc = "done",
                    !.promise = PromiseResolve(th.promise),
                    !.warning = Warning(error)]

\* Calling the async thunk: the body runs up to its first await.
thunkCall(b) ==
    IF b.how = "throwSync"
    THEN catchBlock([NewThunk EXCEPT !.behaviour = b], b.value)
    ELSE [NewThunk EXCEPT !.pc = "awaiting", !.behaviour = b]

\* The awaited promise settles and the async thunk resumes.
thunkResume(th) ==
    IF th.behaviour.how = "reject"
    THEN catchBlock(th, th.behaviour.value)
    ELSE [th EXCEPT !.pc = "done", !.promise = PromiseResolve(th.promise)]

\* The thunk's wrapped function failed (threw or rejected).
Failed(th) == th.pc = "done" /\ th.behaviour.how \in {"throwSync", "reject"}

\* ------------------------------------ createAction / bindActionCreators

\* JavaScript values as bindActionCreators sees them: what typeof says of
\* them, and what they are.
JsUndefined == [typeof |-> "undefined", what |-> "undefined"]
JsNull == [typeof |-> "object", what |-> "null"]
JsNumber == [typeof |-> "number", what |-> "number"]

\* createAction(typeOrThunk): the action creator, with its type property.
createAction(typeOrThunk) ==
    [typeof |-> "function", what |-> "actionCreator", type |-> typeOrThunk]

\* A function that is not an action creator: it returns a plain object.
PlainFunction == [typeof |-> "function", what |-> "function"]

\* What createAction is called with: a string type, or a function.
CreatorTypes == {"INC", "DBL", ThunkFn}

Callables == {createAction(ty) : ty \in CreatorTypes} \cup {PlainFunction}

NonCallables == {JsUndefined, JsNull, JsNumber}

\* The keys of the maps handed to bindActionCreators, and the maps.
Keys == {"inc", "other"}

JsObject(entries) == [typeof |-> "object", what |-> "object", entries |-> entries]

Maps ==
    UNION {[K -> Callables \cup NonCallables] : K \in SUBSET Keys}

BindArguments ==
    NonCallables \cup Callables \cup {JsObject(m) : m \in Maps}

\* What a call returns that did not return an Action: the async thunk of a
\* thunk creator, or the plain object of another function.
NotAnAction(what) == [isAction |-> FALSE, what |-> what, action |-> Absent]

\* actionCreator(...args): the async thunk when typeOrThunk is a function,
\* a new Action of that type otherwise.
actionCreator(typeOrThunk) ==
    IF typeOrThunk = ThunkFn
    THEN NotAnAction("thunk")
    ELSE [isAction |-> TRUE, what |-> "action", action |-> NewAction(typeOrThunk)]

\* actionCreator.match(action)
match(typeOrThunk, action) == action.exists /\ action.type = typeOrThunk

\* Calling a function of Callables.
Apply(fn) ==
    IF fn.what = "actionCreator" THEN actionCreator(fn.type) ELSE NotAnAction("object")

\* The function bindActionCreator returns, as if it dispatched whatever the
\* creator returned.
boundCallAlways(fn) ==
    [action |-> Apply(fn), dispatches |-> TRUE, returns |-> Apply(fn).isAction]

\* The function bindActionCreator returns, as if it did not return the
\* token it dispatched.
boundCallReturnsNothing(fn) ==
    [action |-> Apply(fn), dispatches |-> Apply(fn).isAction, returns |-> FALSE]

\* The function bindActionCreator returns, called: the creator is applied;
\* an Action is dispatched and returned, anything else is dropped and the
\* call returns undefined.
boundCall(fn) ==
    LET action == Apply(fn)
    IN  IF action.isAction
        THEN [action |-> action, dispatches |-> TRUE, returns |-> TRUE]
        ELSE [action |-> action, dispatches |-> FALSE, returns |-> FALSE]

\* bindActionCreator(actionCreator, dispatch)
bindActionCreator(fn) == [typeof |-> "function", what |-> "bound", of |-> fn]

\* What bindActionCreators has not been called yet returns.
NotBound == [what |-> "none"]

\* { ...actionCreators } of an object: its own enumerable entries.
Spread(arg) == JsObject(arg.entries)

\* bindActionCreators as if it bound every entry of the map.
bindActionCreatorsAllEntries(arg) ==
    IF arg.typeof # "object" \/ arg = JsNull
    THEN [warned |-> TRUE, result |-> JsUndefined]
    ELSE [warned |-> FALSE,
          result |-> JsObject([k \in DOMAIN arg.entries |->
                                  bindActionCreator(arg.entries[k])])]

\* bindActionCreators(actionCreators, dispatch)
bindActionCreators(arg) ==
    IF arg.typeof # "object" \/ arg = JsNull
    THEN [warned |-> TRUE, result |-> JsUndefined]
    ELSE LET copy == Spread(arg)
         IN  IF copy.typeof = "function"
             THEN [warned |-> FALSE, result |-> bindActionCreator(copy)]
             ELSE [warned |-> FALSE,
                   result |-> JsObject(
                       [k \in {j \in DOMAIN copy.entries :
                                    copy.entries[j].typeof = "function"} |->
                           bindActionCreator(copy.entries[k])])]

\* ------------------------------------------------------------- StoreModule

FeatureIds == 1..MaxFeatures

\* StoreModule.store before the Store is made: undefined.
NoStore == [id |-> 0, enhanced |-> FALSE]

\* Store.create(module) / Store.create(module, enhancer): a new Store.
StoreCreate(n, enhancer) == [id |-> n, enhanced |-> enhancer]

\* The provider's factory as if it made a Store at every resolution.
useFactoryUnguarded(st, creates, enhancer) ==
    [store |-> StoreCreate(creates + 1, enhancer), creates |-> creates + 1]

\* The factory of the Store provider, up to the queueMicrotask call: the
\* Store is made when StoreModule.store is not set, and kept otherwise.
useFactory(st, creates, enhancer) ==
    IF st = NoStore
    THEN [store |-> StoreCreate(creates + 1, enhancer), creates |-> creates + 1]
    ELSE [store |-> st, creates |-> creates]

\* loadFeatureModule(): StoreModule.store!.loadModule(module, injector), run
\* with the Store that StoreModule.store holds at that moment.
loadFeatureModule(f, st) == [feature |-> f, store |-> st.id]

\* forFeature as if it ran the load routine whether or not the Store exists.
forFeatureLoadsAtOnce(st, fns, lds, f) ==
    [modulesFn |-> fns, loads |-> Append(lds, loadFeatureModule(f, st))]

\* forFeature(module): the load routine is queued when there is no Store and
\* run at once when there is one.
forFeature(st, fns, lds, f) ==
    IF st = NoStore
    THEN [modulesFn |-> Append(fns, f), loads |-> lds]
    ELSE [modulesFn |-> fns, loads |-> Append(lds, loadFeatureModule(f, st))]

\* The queued callback: StoreModule.modulesFn.forEach(fn => fn())
flush(st, fns, lds) ==
    lds \o [i \in 1..Len(fns) |-> loadFeatureModule(fns[i], st)]

VARIABLES
    thunks,      \* TokenIds -> the async thunk run for that dispatch slot
    tokens,      \* TokenIds -> Action token, or Absent
    lastCall,    \* the last method called on a token: [op, id]
    stack,       \* the BehaviorSubject's current value: a sequence of Operations
    waiters,     \* WaiterIds -> the promise of a waitForEmpty() call
    lastReturn,  \* the last ledger method called and what it returned
    pushOrder,   \* the instances on the ledger, in the order they were pushed
    strategy,    \* "exclusive" or "concurrent", fixed at Store construction
    state,       \* the Store's current state value
    queue,       \* exclusive strategy: the root dispatches waiting for admission
    disp,        \* TokenIds -> the dispatch occupying that slot
    arrival,     \* what was dispatched, in the order dispatch() was called
    admitOrder,  \* the arrival numbers of the dispatches admitted, in admission order
    committed,   \* the state values committed, in commit order
    commitOrder, \* the arrival numbers of the actions committed, in commit order
    bindArg,     \* the argument of the last bindActionCreators call
    bound,       \* what the last bindActionCreators call returned
    bindWarned,  \* whether the last bindActionCreators call logged a diagnostic
    dispatched,  \* the tokens dispatch() was called with by bound creators, in order
    lastBound,   \* the last call of a bound creator and what it returned
    store,       \* StoreModule.store: undefined or the Store instance
    createCalls, \* the number of Store.create calls made
    modulesFn,   \* StoreModule.modulesFn: the pending load routines
    microtasks,  \* the flush callbacks queued with queueMicrotask and not yet run
    inTurn,      \* whether a synchronous turn is running
    loads,       \* the load routines invoked, in order, with the Store each one found
    registered,  \* the forFeature calls made, in order
    resolutions  \* what each resolution of the Store provider returned, in order

tokenVars == <<tokens, lastCall>>

thunkVars == <<thunks>>

stackVars == <<stack, waiters, lastReturn, pushOrder>>

storeVars == <<strategy, state, queue, disp, arrival, admitOrder, committed, commitOrder>>

bindVars == <<bindArg, bound, bindWarned, dispatched, lastBound>>

moduleVars == <<store, createCalls, modulesFn, microtasks, inTurn, loads,
                registered, resolutions>>

vars == <<thunks, tokens, lastCall, stack, waiters, lastReturn, pushOrder,
          strategy, state, queue, disp, arrival, admitOrder, committed, commitOrder,
          bindArg, bound, bindWarned, dispatched, lastBound,
          store, createCalls, modulesFn, microtasks, inTurn, loads,
          registered, resolutions>>

Strategies == {"exclusive", "concurrent"}

FreeSlot == [phase |-> "free", type |-> Undefined, root |-> 0, seq |-> 0]

InitStore ==
    /\ strategy \in Strategies
    /\ state = 0
    /\ queue = <<>>
    /\ disp = [d \in TokenIds |-> FreeSlot]
    /\ arrival = <<>>
    /\ admitOrder = <<>>
    /\ committed = <<>>
    /\ commitOrder = <<>>

\* The Store of a program that only uses the tokens, the ledger or the thunks.
IdleStore ==
    /\ InitStore
    /\ strategy = "concurrent"

InitThunks == thunks = [t \in TokenIds |-> NewThunk]

InitTokens ==
    /\ tokens = [t \in TokenIds |-> Absent]
    /\ lastCall = [op |-> "none", id |-> 0]

NoPredicate == [kind |-> "none", ops |-> {}, instance |-> 0]

\* A record of one ledger call: the method, the predicate given to it, the
\* ledger it found, the entry or entries it returned and the waiters its
\* publication released.
Return(op, pred, before, item, items, woke) ==
    [op |-> op, pred |-> pred, before |-> before, item |-> item,
     items |-> items, woke |-> woke]

NoReturn == Return("none", NoPredicate, <<>>, NoItem, <<>>, {})

InitStack ==
    /\ stack = <<>>
    /\ waiters = [w \in WaiterIds |-> IdleWaiter]
    /\ lastReturn = NoReturn
    /\ pushOrder = <<>>

\* A record of one call of a bound creator: the key it was bound under, the
\* creator it wraps, the token the creator made (0: none), the token the call
\* returned (0: undefined) and the number of dispatch calls it made.
BoundCall(key, of, slot, returned, dispatches) ==
    [key |-> key, of |-> of, slot |-> slot, returned |-> returned,
     dispatches |-> dispatches]

NoBoundCall == BoundCall("none", JsUndefined, 0, 0, 0)

InitBind ==
    /\ bindArg = JsUndefined
    /\ bound = NotBound
    /\ bindWarned = FALSE
    /\ dispatched = <<>>
    /\ lastBound = NoBoundCall

InitModule ==
    /\ store = NoStore
    /\ createCalls = 0
    /\ modulesFn = <<>>
    /\ microtasks = 0
    /\ inTurn = FALSE
    /\ loads = <<>>
    /\ registered = <<>>
    /\ resolutions = <<>>

\* ---------------------------------------------------------------- SpecAction
\* Any caller may construct tokens and call resolve()/reject(reason) on them in
\* any order, any number of times.

InitAction ==
    /\ InitTokens
    /\ InitStack
    /\ InitThunks
    /\ IdleStore
    /\ InitBind
    /\ InitModule

Construct(t, typeOrThunk) ==
    /\ ~tokens[t].exists
    /\ tokens' = [tokens EXCEPT ![t] = NewAction(typeOrThunk)]
    /\ lastCall' = [op |-> "new", id |-> t]
    /\ UNCHANGED <<stackVars, thunkVars, storeVars>>
    /\ UNCHANGED <<bindVars, moduleVars>>

CallResolve(t) ==
    /\ tokens[t].exists
    /\ tokens' = [tokens EXCEPT ![t] = resolve(tokens[t])]
    /\ lastCall' = [op |-> "resolve", id |-> t]
    /\ UNCHANGED <<stackVars, thunkVars, storeVars>>
    /\ UNCHANGED <<bindVars, moduleVars>>

CallReject(t, reason) ==
    /\ tokens[t].exists
    /\ tokens' = [tokens EXCEPT ![t] = reject(tokens[t], reason)]
    /\ lastCall' = [op |-> "reject", id |-> t]
    /\ UNCHANGED <<stackVars, thunkVars, storeVars>>
    /\ UNCHANGED <<bindVars, moduleVars>>

\* The reasons reject() is called with: an Error, or none at all.
Reasons == {ErrorObject, Undefined}

NextAction ==
    \/ \E t \in TokenIds, ty \in {"INC", ThunkFn} : Construct(t, ty)
    \/ \E t \in TokenIds : CallResolve(t)
    \/ \E t \in TokenIds, r \in Reasons : CallReject(t, r)

SpecAction == InitAction /\ [][NextAction]_vars

\* C1: only the first resolve()/reject() call settles a token; every later
\* call leaves the token exactly as it was, so resolved never becomes
\* rejected, rejected never becomes resolved, and hasExecuted() stays true.
C1_SettlesOnce ==
    [][\A t \in TokenIds :
          (tokens[t].exists /\ hasExecuted(tokens[t])) =>
             /\ tokens'[t] = tokens[t]
             /\ hasExecuted(tokens'[t])
             /\ ~(tokens'[t].isResolved /\ tokens'[t].isRejected)]_vars

\* A settled token on which a second settling call has just been made.
C1_Witness ==
    \E t \in TokenIds :
        /\ tokens[t].exists
        /\ tokens[t].isRejected
        /\ lastCall = [op |-> "resolve", id |-> t]

\* ----------------------------------------------------------------- SpecStack
\* Any caller may use the public methods of one ExecutionStack in any order.

\* BehaviorSubject.next(value): the value is stored and every subscriber is
\* notified before next() returns.
SubjectNext(value) ==
    /\ stack' = value
    /\ waiters' = waitForNext(waiters, value)
    /\ pushOrder' = Surviving(pushOrder, value)

Publish(value, op, pred, item, items) ==
    /\ SubjectNext(value)
    /\ lastReturn' = Return(op, pred, stack, item, items, Woken(waiters, value))

StackPush(item) ==
    /\ item.instance \notin Instances(stack)
    /\ Publish(push(stack, item), "push", NoPredicate, NoItem, <<>>)
    /\ UNCHANGED <<tokenVars, thunkVars, storeVars>>
    /\ UNCHANGED <<bindVars, moduleVars>>

StackPeek ==
    /\ lastReturn' = Return("peek", NoPredicate, stack, peek(stack), <<>>, {})
    /\ UNCHANGED <<stack, waiters, pushOrder>>
    /\ UNCHANGED <<tokenVars, thunkVars, storeVars>>
    /\ UNCHANGED <<bindVars, moduleVars>>

StackFilter(pred) ==
    /\ Publish(filter(stack, pred), "filter", pred, NoItem, filter(stack, pred))
    /\ UNCHANGED <<tokenVars, thunkVars, storeVars>>
    /\ UNCHANGED <<bindVars, moduleVars>>

StackPop ==
    /\ Publish(pop(stack).stack, "pop", NoPredicate, pop(stack).value, <<>>)
    /\ UNCHANGED <<tokenVars, thunkVars, storeVars>>
    /\ UNCHANGED <<bindVars, moduleVars>>

StackClear ==
    /\ Publish(clear(stack), "clear", NoPredicate, NoItem, <<>>)
    /\ UNCHANGED <<tokenVars, thunkVars, storeVars>>
    /\ UNCHANGED <<bindVars, moduleVars>>

StackToArray ==
    /\ lastReturn' = Return("toArray", NoPredicate, stack, NoItem, toArray(stack), {})
    /\ UNCHANGED <<stack, waiters, pushOrder>>
    /\ UNCHANGED <<tokenVars, thunkVars, storeVars>>
    /\ UNCHANGED <<bindVars, moduleVars>>

\* waitForEmpty(): waitFor(this.stack, value => value.length === 0)
StackWaitForEmpty(w) ==
    /\ IsNextWaiter(waiters, w)
    /\ waiters' = [waiters EXCEPT ![w] = waitForSubscribe(stack)]
    /\ lastReturn' = Return("waitForEmpty", NoPredicate, stack, NoItem, <<>>, {})
    /\ UNCHANGED <<stack, pushOrder>>
    /\ UNCHANGED <<tokenVars, thunkVars, storeVars>>
    /\ UNCHANGED <<bindVars, moduleVars>>

NextStack ==
    \/ \E item \in Operations : StackPush(item)
    \/ StackPeek
    \/ \E pred \in Predicates : StackFilter(pred)
    \/ StackPop
    \/ StackClear
    \/ StackToArray
    \/ \E w \in WaiterIds : StackWaitForEmpty(w)

InitStackSpec ==
    /\ InitTokens
    /\ InitStack
    /\ InitThunks
    /\ IdleStore
    /\ InitBind
    /\ InitModule

SpecStack == InitStackSpec /\ [][NextStack]_vars

\* ----------------------------------------------------------------- SpecThunk
\* Thunks built by createAction(fn) are called directly, each once, with a
\* wrapped function of any behaviour.

InitThunkSpec ==
    /\ InitTokens
    /\ InitStack
    /\ InitThunks
    /\ IdleStore
    /\ InitBind
    /\ InitModule

CallThunk(t, b) ==
    /\ thunks[t].pc = "none"
    /\ thunks' = [thunks EXCEPT ![t] = thunkCall(b)]
    /\ UNCHANGED <<tokenVars, stackVars, storeVars>>
    /\ UNCHANGED <<bindVars, moduleVars>>

ResumeThunk(t) ==
    /\ thunks[t].pc = "awaiting"
    /\ thunks[t].behaviour.how # "hang"
    /\ thunks' = [thunks EXCEPT ![t] = thunkResume(thunks[t])]
    /\ UNCHANGED <<tokenVars, stackVars, storeVars>>
    /\ UNCHANGED <<bindVars, moduleVars>>

NextThunk ==
    \/ \E t \in TokenIds, b \in Behaviours : CallThunk(t, b)
    \/ \E t \in TokenIds : ResumeThunk(t)

SpecThunk == InitThunkSpec /\ [][NextThunk]_vars

\* t holds exactly the entries of s that are in keep, in the order of s.
IsRestriction(t, s, keep) ==
    /\ Instances(t) = keep
    /\ Len(t) = Cardinality(keep)
    /\ \A k \in 1..Len(t) : t[k] = s[PosOf(s, t[k].instance)]
    /\ \A j, k \in 1..Len(t) :
          j < k => PosOf(s, t[j].instance) < PosOf(s, t[k].instance)

\* C5: waitForEmpty() called on an empty ledger resolves at once with the
\* empty snapshot; called on a non-empty ledger it is pending, stays pending
\* over every publication that leaves entries, resolves with the empty
\* snapshot at the first publication of length zero, and never changes again.
C5_WaitForEmpty ==
    [][\A w \in WaiterIds :
          /\ (waiters[w].state = "idle" /\ waiters'[w].state # "idle") =>
                IF Len(stack) = 0
                THEN waiters'[w] = [state |-> "resolved", value |-> <<>>]
                ELSE waiters'[w].state = "pending"
          /\ waiters[w].state = "pending" =>
                /\ Len(stack) > 0
                /\ IF Len(stack') = 0
                   THEN waiters'[w] = [state |-> "resolved", value |-> <<>>]
                   ELSE waiters'[w] = waiters[w]
          /\ waiters[w].state = "resolved" => waiters'[w] = waiters[w]]_vars

\* A waitForEmpty() call on the empty ledger has just resolved at once.
C5_WitnessImmediate ==
    /\ lastReturn.op = "waitForEmpty"
    /\ Len(lastReturn.before) = 0
    /\ \E w \in WaiterIds : waiters[w] = [state |-> "resolved", value |-> <<>>]

\* A pending waiter has just been released by a filter that emptied a ledger
\* of two entries.
C5_Witness ==
    /\ lastReturn.op = "filter"
    /\ Len(lastReturn.before) = 2
    /\ lastReturn.woke # {}
    /\ \A w \in lastReturn.woke : waiters[w] = [state |-> "resolved", value |-> <<>>]

\* C6: after filter(predicate) the ledger holds exactly the previous entries
\* that satisfy the predicate, in their previous relative order, and the call
\* returned that retained sequence.
C6_FilterRetains ==
    lastReturn.op = "filter" =>
        /\ IsRestriction(stack, lastReturn.before,
              {lastReturn.before[k].instance : k \in
                  {j \in 1..Len(lastReturn.before) :
                      Test(lastReturn.pred, lastReturn.before[j])}})
        /\ lastReturn.items = stack

\* A filter that kept two entries of three and discarded the middle one.
C6_Witness ==
    /\ lastReturn.op = "filter"
    /\ Len(lastReturn.before) = 3
    /\ Len(stack) = 2
    /\ stack[1] = lastReturn.before[1]
    /\ stack[2] = lastReturn.before[3]

\* C7: the length is never negative and is the size of the published
\* snapshot; pop() on an empty ledger returns nothing and leaves it empty;
\* pop() on a non-empty ledger returns the most recently pushed entry still
\* present and removes exactly that entry.
C7_PopAndLength ==
    [][/\ Length(stack') >= 0
       /\ Length(stack') = Len(toArray(stack'))
       /\ Length(stack') = Len(pushOrder')
       /\ lastReturn'.op = "pop" =>
            IF Length(stack) = 0
            THEN lastReturn'.item = NoItem /\ stack' = <<>>
            ELSE /\ lastReturn'.item.instance = pushOrder[Len(pushOrder)]
                 /\ lastReturn'.item = stack[PosOf(stack, lastReturn'.item.instance)]
                 /\ Length(stack') = Length(stack) - 1
                 /\ IsRestriction(stack', stack,
                       Instances(stack) \ {lastReturn'.item.instance})]_vars

\* A pop on a ledger of two entries returned the one pushed last and left
\* the other.
C7_Witness ==
    /\ lastReturn.op = "pop"
    /\ Len(lastReturn.before) = 2
    /\ Len(stack) = 1
    /\ lastReturn.item = lastReturn.before[2]
    /\ stack[1] = lastReturn.before[1]

\* pop() on the empty ledger.
C7_WitnessEmpty ==
    /\ lastReturn.op = "pop"
    /\ Len(lastReturn.before) = 0
    /\ lastReturn.item = NoItem

\* C8: a thunk built by createAction never propagates a failure: once the
\* wrapped function has thrown or its promise has rejected, the thunk's own
\* promise is fulfilled and the error has been logged.
C8_NeverPropagates ==
    \A t \in TokenIds :
        Failed(thunks[t]) =>
            /\ thunks[t].promise.state = "fulfilled"
            /\ thunks[t].warning # NoWarning

\* ----------------------------------------------------------------- SpecStore
\* The Store's dispatch pipeline (design section 4.4): admission under the
\* configured strategy, the push onto the ledger, the interceptor chain and
\* the reducer commit, the settlement of the token and the removal of the
\* Operation.  Thunks are the async thunks built by createAction.

\* The caller's reducer: INC adds one, DBL doubles, anything else is ignored.
reducer(s, type) ==
    IF type = "INC" THEN s + 1
    ELSE IF type = "DBL" THEN 2 * s
    ELSE s

\* What is dispatched while arrivals and commits are recorded, and what is
\* dispatched in the unbounded runs (NOP leaves the state as it is).
RecordedTypes == {"INC", "DBL", ThunkFn}
LiveTypes == {"NOP", ThunkFn}

\* The Operation pushed for a dispatch: ACTION for a token, ASYNC_ACTION for a thunk.
OperationOf(d, type) ==
    [operation |-> IF type = ThunkFn THEN "async action" ELSE "action",
     instance |-> d]

\* The behaviours of the thunks the Store is given.
StoreBehaviours ==
    {b \in Behaviours : b.how # "reject" /\ b.value \in {ErrorObject, Undefined}}

\* The slot a new dispatch takes: the lowest free one.
IsNextFree(d) ==
    /\ disp[d].phase = "free"
    /\ \A e \in TokenIds : e < d => disp[e].phase # "free"

\* Admitted dispatches: pushed on the ledger and not yet removed.
Admitted(d) == disp[d].phase \in {"running", "committed"}

\* dispatch() is called: the token is made and the arrival recorded.
Arrive(d, type, reentrant, rec) ==
    /\ IsNextFree(d)
    /\ rec => Len(arrival) < MaxArrivals
    /\ tokens' = [tokens EXCEPT ![d] = NewAction(type)]
    /\ thunks' = [thunks EXCEPT ![d] = NewThunk]
    /\ arrival' = IF rec
                  THEN Append(arrival, [type |-> type, reentrant |-> reentrant])
                  ELSE arrival

\* Admission: the Operation is pushed and the dispatch is Running.
Enter(d, type, root, seq) ==
    /\ SubjectNext(push(stack, OperationOf(d, type)))
    /\ disp' = [disp EXCEPT ![d] =
                  [phase |-> "running", type |-> type, root |-> root, seq |-> seq]]
    /\ admitOrder' = IF seq # 0 THEN Append(admitOrder, seq) ELSE admitOrder

\* The arrival number of the dispatch that is arriving (0: not recorded).
ArrivalNumber(rec) == IF rec THEN Len(arrival) + 1 ELSE 0

\* A root dispatch is submitted.  concurrent: it is Running at once.
\* exclusive: it is queued until the ledger is empty.
Submit(d, type, rec) ==
    /\ Arrive(d, type, FALSE, rec)
    /\ IF strategy = "concurrent"
       THEN /\ Enter(d, type, d, ArrivalNumber(rec))
            /\ UNCHANGED queue
       ELSE /\ queue' = Append(queue, d)
            /\ disp' = [disp EXCEPT ![d] =
                          [phase |-> "queued", type |-> type, root |-> d,
                           seq |-> ArrivalNumber(rec)]]
            /\ UNCHANGED <<stack, waiters, pushOrder, admitOrder>>
    /\ UNCHANGED <<lastCall, lastReturn, strategy, state, committed, commitOrder>>
    /\ UNCHANGED <<bindVars, moduleVars>>

\* exclusive: the next queued root dispatch is admitted once the ledger is empty.
Admit(d) ==
    /\ strategy = "exclusive"
    /\ queue # <<>>
    /\ d = Head(queue)
    /\ Length(stack) = 0
    /\ queue' = Tail(queue)
    /\ Enter(d, disp[d].type, d, disp[d].seq)
    /\ UNCHANGED <<tokenVars, thunkVars, lastReturn, strategy, state, arrival,
                   committed, commitOrder>>
    /\ UNCHANGED <<bindVars, moduleVars>>

\* A running thunk dispatches: the re-entrant dispatch belongs to the running
\* chain and is Running at once under either strategy.
ChildDispatch(p, d, type, rec) ==
    /\ disp[p].phase = "running"
    /\ disp[p].type = ThunkFn
    /\ thunks[p].pc = "awaiting"
    /\ Arrive(d, type, TRUE, rec)
    /\ Enter(d, type, disp[p].root, ArrivalNumber(rec))
    /\ UNCHANGED <<lastCall, lastReturn, strategy, state, queue, committed, commitOrder>>
    /\ UNCHANGED <<bindVars, moduleVars>>

\* d is the plain action that was admitted first among those not committed.
IsNextToCommit(d) ==
    \A e \in TokenIds :
        (e # d /\ disp[e].phase = "running" /\ disp[e].type \in ActionTypes) =>
            PosOf(stack, d) < PosOf(stack, e)

\* The action leaves the interceptor chain and the reducer's result replaces
\* the state: one step.  Actions are committed one at a time, in the order
\* in which they were admitted.
Commit(d, rec) ==
    /\ disp[d].phase = "running"
    /\ disp[d].type \in ActionTypes
    /\ IsNextToCommit(d)
    /\ state' = reducer(state, tokens[d].type)
    /\ disp' = [disp EXCEPT ![d].phase = "committed"]
    /\ committed' = IF rec THEN Append(committed, state') ELSE committed
    /\ commitOrder' = IF rec THEN Append(commitOrder, disp[d].seq) ELSE commitOrder
    /\ UNCHANGED <<tokenVars, thunkVars, stackVars, strategy, queue, arrival, admitOrder>>
    /\ UNCHANGED <<bindVars, moduleVars>>

\* The settled token of a removed dispatch: its holder keeps it while the
\* run is recorded; in the unbounded runs nobody holds it any longer.
Kept(token, rec) == IF rec THEN token ELSE Absent

\* The dispatch's Operation leaves the ledger: filter(op => op.instance !== d)
Remove(d) ==
    SubjectNext(filter(stack, [kind |-> "notInstance", ops |-> {}, instance |-> d]))

\* A plain action's token is resolved after its commit and its Operation removed.
SettleAction(d, rec) ==
    /\ disp[d].phase = "committed"
    /\ tokens' = [tokens EXCEPT ![d] = Kept(resolve(tokens[d]), rec)]
    /\ Remove(d)
    /\ disp' = [disp EXCEPT ![d] = FreeSlot]
    /\ UNCHANGED <<thunkVars, lastCall, lastReturn, strategy, state, queue,
                   arrival, admitOrder, committed, commitOrder>>
    /\ UNCHANGED <<bindVars, moduleVars>>

\* The Store calls an admitted thunk with (dispatch, getState, dependencies).
RunThunk(d, b) ==
    /\ disp[d].phase = "running"
    /\ disp[d].type = ThunkFn
    /\ thunks[d].pc = "none"
    /\ thunks' = [thunks EXCEPT ![d] = thunkCall(b)]
    /\ UNCHANGED <<tokenVars, stackVars, storeVars>>
    /\ UNCHANGED <<bindVars, moduleVars>>

\* The promise the thunk awaits settles (never, for a thunk that hangs).
FinishThunk(d) ==
    /\ disp[d].phase = "running"
    /\ ResumeThunk(d)

\* The thunk's promise has settled: the token is resolved, or rejected with
\* the promise's reason, and the Operation removed.
SettleThunk(d, rec) ==
    /\ disp[d].phase = "running"
    /\ thunks[d].pc = "done"
    /\ tokens' = [tokens EXCEPT ![d] =
                    Kept(IF thunks[d].promise.state = "fulfilled"
                         THEN resolve(tokens[d])
                         ELSE reject(tokens[d], thunks[d].promise.reason), rec)]
    /\ Remove(d)
    /\ disp' = [disp EXCEPT ![d] = FreeSlot]
    /\ thunks' = [thunks EXCEPT ![d] = NewThunk]
    /\ UNCHANGED <<lastCall, lastReturn, strategy, state, queue,
                   arrival, admitOrder, committed, commitOrder>>
    /\ UNCHANGED <<bindVars, moduleVars>>

\* Somebody calls waitForEmpty() on the Store's ledger.
StoreWaitForEmpty(w) ==
    /\ IsNextWaiter(waiters, w)
    /\ waiters' = [waiters EXCEPT ![w] = waitForSubscribe(stack)]
    /\ UNCHANGED <<tokenVars, thunkVars, stack, lastReturn, pushOrder, storeVars>>
    /\ UNCHANGED <<bindVars, moduleVars>>

InitStoreSpec ==
    /\ InitTokens
    /\ InitStack
    /\ InitThunks
    /\ InitStore
    /\ InitBind
    /\ InitModule

NextStore ==
    \/ \E d \in TokenIds, ty \in RecordedTypes : Submit(d, ty, TRUE)
    \/ \E d \in TokenIds : Admit(d)
    \/ \E p, d \in TokenIds, ty \in RecordedTypes : ChildDispatch(p, d, ty, TRUE)
    \/ \E d \in TokenIds : Commit(d, TRUE)
    \/ \E d \in TokenIds : SettleAction(d, TRUE)
    \/ \E d \in TokenIds, b \in StoreBehaviours : RunThunk(d, b)
    \/ \E d \in TokenIds : FinishThunk(d)
    \/ \E d \in TokenIds : SettleThunk(d, TRUE)

SpecStore == InitStoreSpec /\ [][NextStore]_vars

\* ----------------------------------------------------------------- FairStore
\* The same pipeline with no limit on the number of dispatches (a slot is
\* taken again once its dispatch has been removed) and without the record of
\* arrivals and commits.  The event loop runs every step of the pipeline that
\* is ready: each is weakly fair.  Callers are free to dispatch or not, and a
\* thunk is free to hang.

NextLive ==
    \/ \E d \in LiveIds, ty \in LiveTypes : Submit(d, ty, FALSE)
    \/ \E d \in LiveIds : Admit(d)
    \/ \E p, d \in LiveIds, ty \in LiveTypes : ChildDispatch(p, d, ty, FALSE)
    \/ \E d \in LiveIds : Commit(d, FALSE)
    \/ \E d \in LiveIds : SettleAction(d, FALSE)
    \/ \E d \in LiveIds, b \in StoreBehaviours : RunThunk(d, b)
    \/ \E d \in LiveIds : FinishThunk(d)
    \/ \E d \in LiveIds : SettleThunk(d, FALSE)
    \/ \E w \in WaiterIds : StoreWaitForEmpty(w)

\* The step of the pipeline that dispatch d is ready for (its phase allows
\* at most one of them).
PipelineStep(d) ==
    \/ Admit(d)
    \/ Commit(d, FALSE)
    \/ SettleAction(d, FALSE)
    \/ \E b \in StoreBehaviours : RunThunk(d, b)
    \/ FinishThunk(d)
    \/ SettleThunk(d, FALSE)

Fairness == \A d \in LiveIds : WF_vars(PipelineStep(d))

FairStore == InitStoreSpec /\ [][NextLive]_vars /\ Fairness

\* The dispatches that are roots of a chain and Running.
RunningRoots == {d \in TokenIds : Admitted(d) /\ disp[d].root = d}

\* C2: under strategy exclusive a queued root dispatch enters Running only
\* when the ledger is empty, at most one root dispatch is Running, and
\* everything on the ledger belongs to one root's chain.
C2_ExclusiveOneChain ==
    [][strategy = "exclusive" =>
         /\ \A d \in TokenIds :
              (disp[d].phase = "queued" /\ disp'[d].phase # "queued") =>
                 /\ Len(stack) = 0
                 /\ disp'[d].phase = "running"
         /\ \A d \in TokenIds :
              (disp[d].phase = "free" /\ Admitted(d)') =>
                 \E p \in TokenIds : Admitted(p) /\ disp'[d].root = disp[p].root
         /\ Cardinality(RunningRoots') <= 1
         /\ \A d, e \in TokenIds :
              (Admitted(d)' /\ Admitted(e)') => disp'[d].root = disp'[e].root]_vars

\* exclusive: a root dispatch waits in the queue while a running thunk and
\* the action it dispatched are on the ledger.
C2_Witness ==
    /\ strategy = "exclusive"
    /\ Len(queue) = 1
    /\ Len(stack) = 2
    /\ \E p, c \in TokenIds :
          /\ Admitted(p) /\ disp[p].type = ThunkFn /\ disp[p].root = p
          /\ Admitted(c) /\ c # p /\ disp[c].root = p

\* The types of the plain actions (not thunks) among the arrivals.
PlainArrivals ==
    SelectSeq([k \in 1..Len(arrival) |-> arrival[k].type],
              LAMBDA ty : ty # ThunkFn)

\* The types of the actions committed, in commit order.
CommittedTypes == [k \in 1..Len(commitOrder) |-> arrival[commitOrder[k]].type]

\* The state after the reducer is folded over the first k of types, from 0.
RECURSIVE FoldTo(_, _)
FoldTo(types, k) ==
    IF k = 0 THEN 0 ELSE reducer(FoldTo(types, k - 1), types[k])

PlainAdmitted ==
    SelectSeq(admitOrder, LAMBDA n : arrival[n].type # ThunkFn)

AdmittedUnsettled ==
    {d \in TokenIds :
        /\ tokens[d].exists
        /\ ~hasExecuted(tokens[d])
        /\ disp[d].phase # "queued"}

C9_SyncThrowLogged ==
    \A d \in TokenIds :
        (Admitted(d) /\ thunks[d].pc = "done"
            /\ thunks[d].behaviour.how = "throwSync") =>
           /\ thunks[d].warning # NoWarning
           /\ thunks[d].promise.state = "fulfilled"

\* A dispatched thunk whose awaited promise never settles.
Hung(d) ==
    /\ disp[d].phase = "running"
    /\ thunks[d].pc = "awaiting"
    /\ thunks[d].behaviour.how = "hang"

\* No thunk that never settles is in flight.
NoHang == \A d \in TokenIds : ~Hung(d)

\* dispatch() is called (by a caller or by a running thunk).
Dispatching == \E d \in TokenIds : disp[d].phase = "free" /\ disp'[d].phase # "free"

\* C10, first half: while a thunk that never settles is on the ledger, its
\* Operation stays there, no waitForEmpty() promise resolves and, under
\* exclusive, no queued root dispatch is admitted.
HungBlocks ==
    [][(\E h \in TokenIds : Hung(h)) =>
         /\ \A h \in TokenIds : Hung(h) => (Hung(h)' /\ h \in Instances(stack'))
         /\ \A w \in WaiterIds :
              waiters'[w].state = "resolved" => waiters[w].state = "resolved"
         /\ strategy = "exclusive" =>
              \A d \in TokenIds :
                 disp[d].phase = "queued" => disp'[d].phase = "queued"]_vars

\* Every queued dispatch is eventually admitted and every pending
\* waitForEmpty() caller is eventually released.
AllReleased ==
    /\ \A d \in TokenIds : (disp[d].phase = "queued") ~> (disp[d].phase = "running")
    /\ \A w \in WaiterIds : (waiters[w].state = "pending") ~> (waiters[w].state = "resolved")

\* C10 as stated: a thunk that never settles blocks for ever; and if every
\* thunk settles, every queued dispatch is admitted and every waiter released.
C10_SettlingThunksRelease ==
    /\ HungBlocks
    /\ ([]NoHang) => AllReleased

\* C10 (amended): a thunk that never settles blocks for ever; and if every
\* thunk settles and dispatching eventually stops, every queued dispatch is
\* admitted and every waiter released.
C10_DrainedLedgerReleases ==
    /\ HungBlocks
    /\ (([]NoHang) /\ <>[][~Dispatching]_vars) => AllReleased

\* exclusive: a thunk that never settles is on the ledger, a root dispatch is
\* queued behind it and a waitForEmpty() caller is pending.
C10_Witness ==
    /\ strategy = "exclusive"
    /\ \E h \in TokenIds : Hung(h)
    /\ Len(queue) = 1
    /\ \E w \in WaiterIds : waiters[w].state = "pending"

\* ------------------------------------------------------------------ SpecBind
\* A caller binds anything at all with bindActionCreators, any number of
\* times, and calls the bound creators of the last result.

InitBindSpec ==
    /\ InitTokens
    /\ InitStack
    /\ InitThunks
    /\ IdleStore
    /\ InitBind
    /\ InitModule

\* bindActionCreators(arg, dispatch)
Bind(arg) ==
    /\ bindArg' = arg
    /\ bound' = bindActionCreators(arg).result
    /\ bindWarned' = bindActionCreators(arg).warned
    /\ lastBound' = NoBoundCall
    /\ UNCHANGED <<dispatched, tokenVars, thunkVars, stackVars, storeVars, moduleVars>>

\* The slot a token made by a creator takes: the lowest one not yet used.
IsNextToken(t) ==
    /\ ~tokens[t].exists
    /\ \A u \in TokenIds : u < t => tokens[u].exists

\* The dispatch function the creators are bound to is the Store's: it is
\* handed the token, and the Operation of the dispatch goes on the ledger.
Dispatch(t, action) ==
    /\ dispatched' = Append(dispatched, t)
    /\ SubjectNext(push(stack, OperationOf(t, IF action.isAction
                                               THEN action.action.type
                                               ELSE ThunkFn)))

\* boundActionCreators[k](): the bound creator under key k is called.
CallBound(k, t) ==
    /\ bound.what = "object"
    /\ k \in DOMAIN bound.entries
    /\ LET call == boundCall(bound.entries[k].of)
           slot == IF call.action.isAction THEN t ELSE 0
       IN  /\ IF call.action.isAction THEN IsNextToken(t) ELSE t = 1
           /\ tokens' = IF call.action.isAction
                         THEN [tokens EXCEPT ![t] = call.action.action]
                         ELSE tokens
           /\ IF call.dispatches
              THEN Dispatch(slot, call.action)
              ELSE UNCHANGED <<dispatched, stack, waiters, pushOrder>>
           /\ lastBound' = BoundCall(k, bound.entries[k].of, slot,
                                      IF call.returns THEN slot ELSE 0,
                                      IF call.dispatches THEN 1 ELSE 0)
    /\ UNCHANGED <<bindArg, bound, bindWarned, lastCall, lastReturn>>
    /\ UNCHANGED <<thunkVars, storeVars, moduleVars>>

NextBind ==
    \/ \E arg \in BindArguments : Bind(arg)
    \/ \E k \in Keys, t \in TokenIds : CallBound(k, t)

SpecBind == InitBindSpec /\ [][NextBind]_vars

\* A bound creator has been called in this step.
BoundCalled == lastBound' # lastBound /\ lastBound'.key # "none"

\* The creators createAction builds from a string type.
StringCreators == {createAction(ty) : ty \in CreatorTypes \ {ThunkFn}}

\* C11: calling the bound creator of a createAction(type) creator, type a
\* string, calls dispatch exactly once, with a new token that the creator's
\* match() accepts, and returns that token.
C11_BoundCreatorDispatchesOnce ==
    [][(BoundCalled /\ lastBound'.of \in StringCreators) =>
          /\ lastBound'.of = bindArg.entries[lastBound'.key]
          /\ Len(dispatched') = Len(dispatched) + 1
          /\ SubSeq(dispatched', 1, Len(dispatched)) = dispatched
          /\ LET t == dispatched'[Len(dispatched')]
             IN  /\ t \in TokenIds
                 /\ ~tokens[t].exists
                 /\ match(lastBound'.of.type, tokens'[t])
                 /\ lastBound'.returned = t]_vars

\* The bound "inc" creator of a map of two string-type creators has been
\* called after another bound call was made.
C11_Witness ==
    /\ bindArg.typeof = "object"
    /\ bindArg.what = "object"
    /\ DOMAIN bindArg.entries = Keys
    /\ \A k \in Keys : bindArg.entries[k] \in StringCreators
    /\ lastBound.key = "inc"
    /\ lastBound.returned = 2
    /\ Len(dispatched) = 2

\* C12: bindActionCreators given a single action creator function returns
\* the bound function of that creator (calling it dispatches the token the
\* creator makes and returns it).
C12_SingleCreatorIsBound ==
    (bound # NotBound /\ bindArg.typeof = "function") =>
        bound = bindActionCreator(bindArg)

\* The entries of a bindActionCreators result, none for undefined.
BoundKeys(result) ==
    IF result.what = "object" THEN DOMAIN result.entries ELSE {}

\* C13: binding never calls dispatch; an argument that is not an object
\* (or is null) gets a logged diagnostic and the result undefined; a map gets
\* an object holding the bound creator of each callable entry under the
\* entry's key and nothing under any other key.
C13_BindingIsSafe ==
    [][/\ (bound' # bound \/ bindArg' # bindArg) =>
             /\ dispatched' = dispatched
             /\ tokens' = tokens
             /\ stack' = stack
       /\ bound' # NotBound =>
             IF bindArg'.typeof \notin {"object", "function"} \/ bindArg' = JsNull
             THEN /\ bindWarned'
                  /\ bound' = JsUndefined
             ELSE IF bindArg'.typeof = "object"
             THEN /\ ~bindWarned'
                  /\ bound'.what = "object"
                  /\ BoundKeys(bound') =
                        {k \in DOMAIN bindArg'.entries :
                            bindArg'.entries[k] \in Callables}
                  /\ \A k \in BoundKeys(bound') :
                        bound'.entries[k] = bindActionCreator(bindArg'.entries[k])
             ELSE TRUE]_vars

\* A map with a callable under one key and a number under the other has been
\* bound after a dispatch had been made: the result holds the first key only.
C13_Witness ==
    /\ bindArg.typeof = "object"
    /\ bindArg.what = "object"
    /\ DOMAIN bindArg.entries = Keys
    /\ bindArg.entries["inc"] = createAction("INC")
    /\ bindArg.entries["other"] = JsNumber
    /\ BoundKeys(bound) = {"inc"}
    /\ lastBound = NoBoundCall
    /\ Len(dispatched) = 1

InitModuleSpec ==
    /\ InitTokens
    /\ InitStack
    /\ InitThunks
    /\ IdleStore
    /\ InitBind
    /\ InitModule

otherVars == <<tokenVars, thunkVars, stackVars, storeVars, bindVars>>

BeginTurn ==
    /\ ~inTurn
    /\ inTurn' = TRUE
    /\ UNCHANGED <<store, createCalls, modulesFn, microtasks, loads,
                   registered, resolutions, otherVars>>

EndTurn ==
    /\ inTurn
    /\ inTurn' = FALSE
    /\ UNCHANGED <<store, createCalls, modulesFn, microtasks, loads,
                   registered, resolutions, otherVars>>

\* StoreModule.forFeature(module), the f-th registration of the run.
ForFeature(f) ==
    /\ inTurn
    /\ f = Len(registered) + 1
    /\ modulesFn' = forFeature(store, modulesFn, loads, f).modulesFn
    /\ loads' = forFeature(store, modulesFn, loads, f).loads
    /\ registered' = Append(registered, f)
    /\ UNCHANGED <<store, createCalls, microtasks, inTurn, resolutions, otherVars>>

\* The injector resolves the Store provider: the factory runs.
ResolveStore(enhancer) ==
    /\ inTurn
    /\ Len(resolutions) < MaxResolutions
    /\ store' = useFactory(store, createCalls, enhancer).store
    /\ createCalls' = useFactory(store, createCalls, enhancer).creates
    /\ microtasks' = microtasks + 1
    /\ resolutions' = Append(resolutions, store')
    /\ UNCHANGED <<modulesFn, inTurn, loads, registered, otherVars>>

\* The oldest queued callback runs.
Flush ==
    /\ ~inTurn
    /\ microtasks > 0
    /\ microtasks' = microtasks - 1
    /\ loads' = flush(store, modulesFn, loads)
    /\ UNCHANGED <<store, createCalls, modulesFn, inTurn, registered,
                   resolutions, otherVars>>

NextModule ==
    \/ BeginTurn
    \/ EndTurn
    \/ \E f \in FeatureIds : ForFeature(f)
    \/ \E enhancer \in BOOLEAN : ResolveStore(enhancer)
    \/ Flush

SpecModule == InitModuleSpec /\ [][NextModule]_vars

\* The features of a sequence of load records, and of the pending list.
LoadedFeatures(lds) == {lds[i].feature : i \in 1..Len(lds)}
PendingFeatures(fns) == {fns[i] : i \in 1..Len(fns)}

\* C14: a forFeature call made while there is no Store queues its load
\* routine and loads nothing; one made once the Store exists loads at once
\* and queues nothing; every load routine that runs finds the Store; making
\* the Store queues the flush and loads nothing in that turn; the flush runs
\* outside a turn and invokes every pending load routine against the Store,
\* and until it has run it stays queued.
C14_PendingUntilStoreExists ==
    [][/\ Len(registered') > Len(registered) =>
             LET f == registered'[Len(registered')]
             IN  IF store = NoStore
                 THEN /\ modulesFn' = Append(modulesFn, f)
                      /\ loads' = loads
                 ELSE /\ modulesFn' = modulesFn
                      /\ loads' = Append(loads, [feature |-> f, store |-> store.id])
       /\ \A i \in 1..Len(loads') :
             loads'[i].store # NoStore.id /\ loads'[i].store = store'.id
       /\ (store = NoStore /\ store' # NoStore) =>
             /\ inTurn
             /\ microtasks' = microtasks + 1
             /\ loads' = loads
       /\ microtasks' < microtasks =>
             /\ ~inTurn
             /\ store # NoStore
             /\ Len(loads') = Len(loads) + Len(modulesFn)
             /\ SubSeq(loads', 1, Len(loads)) = loads
             /\ \A i \in 1..Len(modulesFn) :
                   loads'[Len(loads) + i] =
                       [feature |-> modulesFn[i], store |-> store.id]
       /\ (store' # NoStore /\ ~(PendingFeatures(modulesFn') \subseteq LoadedFeatures(loads'))) =>
             microtasks' > 0]_vars

\* Two registrations were queued before the Store existed and flushed after
\* it was made, and a third one, made later, was loaded at once.
C14_Witness ==
    /\ modulesFn = <<1, 2>>
    /\ registered = <<1, 2, 3>>
    /\ Len(resolutions) = 1
    /\ microtasks = 0
    /\ loads = <<[feature |-> 1, store |-> 1], [feature |-> 2, store |-> 1],
                 [feature |-> 3, store |-> 1]>>

\* C15: Store.create is called at most once, every resolution of the
\* provider returns the one Store made, and StoreModule.store, once set, is
\* never changed or reset.
C15_OneMemoizedStore ==
    [][/\ createCalls' <= 1
       /\ store # NoStore => store' = store
       /\ \A i \in 1..Len(resolutions') :
             /\ resolutions'[i] # NoStore
             /\ resolutions'[i] = store'
             /\ resolutions'[i] = resolutions'[1]]_vars

\* The provider has been resolved twice and one Store has been made.
C15_Witness ==
    /\ Len(resolutions) >= 2
    /\ createCalls = 1
    /\ resolutions[2] = store

\* The number of times the load routine of feature f has been invoked.
LoadCount(f) == Cardinality({i \in 1..Len(loads) : loads[i].feature = f})

\* C18: the load routine of a registration made before the Store existed is
\* never invoked more than once, however often the provider is resolved.
C18_PendingLoadedOnce ==
    \A f \in PendingFeatures(modulesFn) : LoadCount(f) <= 1

\* The position of the first load of feature f.
FirstLoad(f) ==
    CHOOSE i \in 1..Len(loads) :
        /\ loads[i].feature = f
        /\ \A j \in 1..(i - 1) : loads[j].feature # f

\* C19: features are loaded in the order of their registrations: when a
\* feature has been loaded, every feature registered before it has been
\* loaded before it.
C19_LoadedInRegistrationOrder ==
    \A f, g \in LoadedFeatures(loads) \cup PendingFeatures(modulesFn) :
        (f < g /\ g \in LoadedFeatures(loads)) =>
            /\ f \in LoadedFeatures(loads)
            /\ FirstLoad(f) < FirstLoad(g)

\* ------------------------------------------------ waitForCompletion (C16)

\* C16: the promise waitForCompletion() returns is pending exactly while the
\* token is unsettled; the first settling call fulfils it (resolve()) or
\* rejects it with the reason given (reject(reason)); after that no call
\* changes it, so every waitForCompletion() call sees the same outcome.
C16_CompletionFollowsToken ==
    [][\A t \in TokenIds :
          tokens[t].exists =>
             /\ (waitForCompletion(tokens[t]).state = "pending")
                    <=> ~hasExecuted(tokens[t])
             /\ hasExecuted(tokens[t]) =>
                    waitForCompletion(tokens'[t]) = waitForCompletion(tokens[t])
             /\ (~hasExecuted(tokens[t]) /\ lastCall' = [op |-> "resolve", id |-> t]) =>
                    waitForCompletion(tokens'[t]) =
                        [state |-> "fulfilled", reason |-> Undefined]
             /\ \A r \in Reasons :
                    (~hasExecuted(tokens[t]) /\ CallReject(t, r)) =>
                        waitForCompletion(tokens'[t]) =
                            [state |-> "rejected", reason |-> r]
             /\ (~hasExecuted(tokens[t]) /\ lastCall'.id # t) =>
                    waitForCompletion(tokens'[t]).state = "pending"]_vars

\* One token's promise was rejected with an Error by its first settling call
\* and a later resolve() was made on it, while another token is still pending.
C16_Witness ==
    \E t, u \in TokenIds :
        /\ tokens[t].exists
        /\ waitForCompletion(tokens[t]) = [state |-> "rejected", reason |-> ErrorObject]
        /\ lastCall = [op |-> "resolve", id |-> t]
        /\ tokens[u].exists
        /\ waitForCompletion(tokens[u]).state = "pending"

\* ------------------------------------------- concurrent waiters (C17)

\* The waitForEmpty() callers pending on the ledger.
PendingWaiters(ws) == {w \in WaiterIds : ws[w].state = "pending"}

\* C17: the publication that brings the ledger from a non-zero length to zero
\* releases every pending waitForEmpty() caller with the empty snapshot, and
\* a released caller keeps that snapshot whatever is pushed afterwards.
C17_AllWaitersReleased ==
    [][/\ (Length(stack) > 0 /\ Length(stack') = 0) =>
             /\ PendingWaiters(waiters') = {}
             /\ \A w \in PendingWaiters(waiters) :
                    waiters'[w] = [state |-> "resolved", value |-> <<>>]
             /\ lastReturn'.woke = PendingWaiters(waiters)
       /\ \A w \in WaiterIds :
             (waiters[w].state = "resolved" /\ Length(stack') > Length(stack)) =>
                 waiters'[w] = [state |-> "resolved", value |-> <<>>]]_vars

\* Two callers were pending together and the one step that emptied a ledger
\* of two entries has just released both.
C17_Witness ==
    /\ Cardinality(lastReturn.woke) >= 2
    /\ Len(lastReturn.before) = 2
    /\ Length(stack) = 0
    /\ \A w \in lastReturn.woke : waiters[w] = [state |-> "resolved", value |-> <<>>]

====
